---------------------------- MODULE Spec2Model ----------------------------
(***************************************************************************)
(* Model of the Mergington High School activities API (src/src/app.py,     *)
(* src/src/database.py): the activities table and the two mutating         *)
(* handlers, signup_for_activity and unregister_from_activity.             *)
(*                                                                         *)
(* Spec      : every request runs from its query to its commit as one      *)
(*             step (the serial behaviour of the handlers).                *)
(* SpecConc  : two requests run on the worker threads FastAPI gives to     *)
(*             "def" endpoints, each with a session of its own (get_db).   *)
(*             A request is two steps: the query that loads the row        *)
(*             (lines 50 / 85 of app.py) and the rest of the handler,      *)
(*             which works on the loaded copy and ends in db.commit().     *)
(*             The session is built with autoflush=False, so the UPDATE    *)
(*             is sent inside db.commit(); pysqlite opens no transaction   *)
(*             for the SELECT, so nothing ties the query to the commit.    *)
(*             Each worker runs one request; the table they start from is  *)
(*             any table Init allows.                                      *)
(***************************************************************************)
EXTENDS Naturals, Sequences, FiniteSets, TLC

\* Largest max_participants a modelled activity has (the seed's 10..30,
\* scaled down).
MaxCap == 2

\* Student identifiers a request may carry.
Emails == {"michael", "daniel", "emma"}

\* Names that have a row in the table, and the names a request may carry.
ActivityNames == {"Chess Club", "Math Club"}
RequestNames == ActivityNames \cup {"Unknown Club"}

\* The worker threads that run requests concurrently.
Workers == {"w1", "w2"}

VARIABLES
    activities,   \* the table: name -> [max_participants, participants_json]
    last,         \* Spec: the last request served, its response, the table before it
    pc,           \* SpecConc: worker -> "idle" | "loaded" | "done"
    req,          \* SpecConc: worker -> the request it runs
    loaded,       \* SpecConc: worker -> the rows its session's query returned
    response,     \* SpecConc: worker -> the response it returned
    committed     \* SpecConc: the last request whose commit changed the table

vars == <<activities, last, pc, req, loaded, response, committed>>
concVars == <<pc, req, loaded, response, committed>>

-----------------------------------------------------------------------------
(* Python list operations used by the handlers *)

\* email in participants
In(email, participants) == \E i \in 1..Len(participants) : participants[i] = email

\* number of occurrences of email in participants
Count(email, participants) ==
    Cardinality({i \in 1..Len(participants) : participants[i] = email})

\* list.remove(email): drops the first occurrence
RemoveFirst(participants, email) ==
    LET i == CHOOSE k \in 1..Len(participants) :
                 /\ participants[k] = email
                 /\ \A j \in 1..(k - 1) : participants[j] # email
    IN  SubSeq(participants, 1, i - 1) \o SubSeq(participants, i + 1, Len(participants))

NoDuplicates(participants) ==
    \A i, j \in 1..Len(participants) : participants[i] = participants[j] => i = j

-----------------------------------------------------------------------------
(* participants_json: the list as JSON text, modelled as its token sequence *)
(*   ["a", "b"]   is   << "[", "a", ",", "b", "]" >>                        *)

RECURSIVE JoinTokens(_)
JoinTokens(participants) ==
    IF Len(participants) <= 1 THEN participants
    ELSE <<Head(participants), ",">> \o JoinTokens(Tail(participants))

json_dumps(participants) == <<"[">> \o JoinTokens(participants) \o <<"]">>

json_loads(text) == [i \in 1..((Len(text) - 1) \div 2) |-> text[2 * i]]

get_participants(row) == json_loads(row.participants_json)

set_participants(row, participants) ==
    [row EXCEPT !.participants_json = json_dumps(participants)]

-----------------------------------------------------------------------------
(* The table *)

\* db.query(Activity).filter(Activity.name == activity_name).first():
\* the rows found, none or one (name is a unique column)
Query(table, activity_name) ==
    IF activity_name \in DOMAIN table THEN <<table[activity_name]>> ELSE <<>>

\* db.commit() of a session whose loaded row had participants_json set:
\* UPDATE activities SET participants_json = ? WHERE id = ?
Commit(table, activity_name, row) ==
    [table EXCEPT ![activity_name].participants_json = row.participants_json]

\* Lists of distinct emails, up to n long
Rosters(n) ==
    {r \in UNION {[1..k -> Emails] : k \in 0..n} : NoDuplicates(r)}

\* The rows an activity of capacity 1..MaxCap can hold
Rows ==
    UNION {{[max_participants |-> m, participants_json |-> json_dumps(r)] :
               r \in Rosters(m)} : m \in 1..MaxCap}

-----------------------------------------------------------------------------
(* The handlers *)

NotFound == [status |-> 404, detail |-> "Activity not found"]

\* Variants of the handlers with one slip each, used to show that the
\* properties below depend on the handlers' checks.

\* capacity compared with > where the handler has >=
signup_loaded_capacity_gt(row, email) ==
    LET participants == get_participants(row)
    IN  IF In(email, participants)
        THEN [status |-> 400, detail |-> "Student is already signed up",
              write |-> FALSE, row |-> row]
        ELSE IF Len(participants) > row.max_participants
        THEN [status |-> 400, detail |-> "Activity is at maximum capacity",
              write |-> FALSE, row |-> row]
        ELSE [status |-> 200, detail |-> "Signed up",
              write |-> TRUE,
              row |-> set_participants(row, Append(participants, email))]

\* the "already signed up" check left out
signup_loaded_no_duplicate_check(row, email) ==
    LET participants == get_participants(row)
    IN  IF Len(participants) >= row.max_participants
        THEN [status |-> 400, detail |-> "Activity is at maximum capacity",
              write |-> FALSE, row |-> row]
        ELSE [status |-> 200, detail |-> "Signed up",
              write |-> TRUE,
              row |-> set_participants(row, Append(participants, email))]

\* the capacity check made before the "already signed up" check
signup_loaded_capacity_first(row, email) ==
    LET participants == get_participants(row)
    IN  IF Len(participants) >= row.max_participants
        THEN [status |-> 400, detail |-> "Activity is at maximum capacity",
              write |-> FALSE, row |-> row]
        ELSE IF In(email, participants)
        THEN [status |-> 400, detail |-> "Student is already signed up",
              write |-> FALSE, row |-> row]
        ELSE [status |-> 200, detail |-> "Signed up",
              write |-> TRUE,
              row |-> set_participants(row, Append(participants, email))]

\* participants.insert(0, email) where the handler appends
signup_loaded_insert_front(row, email) ==
    LET participants == get_participants(row)
    IN  IF In(email, participants)
        THEN [status |-> 400, detail |-> "Student is already signed up",
              write |-> FALSE, row |-> row]
        ELSE IF Len(participants) >= row.max_participants
        THEN [status |-> 400, detail |-> "Activity is at maximum capacity",
              write |-> FALSE, row |-> row]
        ELSE [status |-> 200, detail |-> "Signed up",
              write |-> TRUE,
              row |-> set_participants(row, <<email>> \o participants)]

\* the capacity check made after the append and the commit
signup_loaded_capacity_after_commit(row, email) ==
    LET participants == get_participants(row)
    IN  IF In(email, participants)
        THEN [status |-> 400, detail |-> "Student is already signed up",
              write |-> FALSE, row |-> row]
        ELSE IF Len(participants) >= row.max_participants
        THEN [status |-> 400, detail |-> "Activity is at maximum capacity",
              write |-> TRUE,
              row |-> set_participants(row, Append(participants, email))]
        ELSE [status |-> 200, detail |-> "Signed up",
              write |-> TRUE,
              row |-> set_participants(row, Append(participants, email))]

\* participants.pop() where the handler removes the student
unregister_loaded_pop_last(row, email) ==
    LET participants == get_participants(row)
    IN  IF ~In(email, participants)
        THEN [status |-> 400, detail |-> "Student is not signed up for this activity",
              write |-> FALSE, row |-> row]
        ELSE [status |-> 200, detail |-> "Unregistered",
              write |-> TRUE,
              row |-> set_participants(row, SubSeq(participants, 1, Len(participants) - 1))]

\* signup_for_activity from "Get participants list" on, for the row the
\* query loaded: the response, and the row to commit when write is TRUE
signup_loaded(row, email) ==
    LET participants == get_participants(row)
    IN  IF In(email, participants)
        THEN [status |-> 400, detail |-> "Student is already signed up",
              write |-> FALSE, row |-> row]
        ELSE IF Len(participants) >= row.max_participants
        THEN [status |-> 400, detail |-> "Activity is at maximum capacity",
              write |-> FALSE, row |-> row]
        ELSE [status |-> 200, detail |-> "Signed up",
              write |-> TRUE,
              row |-> set_participants(row, Append(participants, email))]

\* unregister_from_activity from "Get participants list" on
unregister_loaded(row, email) ==
    LET participants == get_participants(row)
    IN  IF ~In(email, participants)
        THEN [status |-> 400, detail |-> "Student is not signed up for this activity",
              write |-> FALSE, row |-> row]
        ELSE [status |-> 200, detail |-> "Unregistered",
              write |-> TRUE,
              row |-> set_participants(row, RemoveFirst(participants, email))]

\* a row made for a name that has none, where the handler answers 404
signup_for_activity_creates_missing(table, activity_name, email) ==
    LET found == Query(table, activity_name)
    IN  IF found = <<>>
        THEN [table  |-> table @@ (activity_name :>
                             [max_participants |-> 1,
                              participants_json |-> json_dumps(<<email>>)]),
              status |-> NotFound.status, detail |-> NotFound.detail]
        ELSE LET out == signup_loaded(found[1], email)
             IN  [table  |-> IF out.write THEN Commit(table, activity_name, out.row)
                                          ELSE table,
                  status |-> out.status, detail |-> out.detail]

\* The whole handler, run without interruption: the table it leaves and
\* the response it returns
signup_for_activity(table, activity_name, email) ==
    LET found == Query(table, activity_name)
    IN  IF found = <<>>
        THEN [table |-> table, status |-> NotFound.status, detail |-> NotFound.detail]
        ELSE LET out == signup_loaded(found[1], email)
             IN  [table  |-> IF out.write THEN Commit(table, activity_name, out.row)
                                          ELSE table,
                  status |-> out.status, detail |-> out.detail]

unregister_from_activity(table, activity_name, email) ==
    LET found == Query(table, activity_name)
    IN  IF found = <<>>
        THEN [table |-> table, status |-> NotFound.status, detail |-> NotFound.detail]
        ELSE LET out == unregister_loaded(found[1], email)
             IN  [table  |-> IF out.write THEN Commit(table, activity_name, out.row)
                                          ELSE table,
                  status |-> out.status, detail |-> out.detail]

-----------------------------------------------------------------------------
(* State after startup *)

NoRequest == [op |-> "none", activity_name |-> "", email |-> ""]
NoResponse == [status |-> 0, detail |-> ""]

\* init_db seeds the table only when it is empty, so the table after startup
\* is the seed or whatever earlier runs left in it.  Every roster of distinct
\* students within an activity's capacity can be left by signups and
\* unregistrations from the seed, so Init draws the table from all of them.
Init ==
    /\ activities \in [ActivityNames -> Rows]
    /\ last = [op |-> "none", activity_name |-> "", email |-> "",
               status |-> 0, detail |-> "", before |-> activities]
    /\ pc = [w \in Workers |-> "idle"]
    /\ req = [w \in Workers |-> NoRequest]
    /\ loaded = [w \in Workers |-> <<>>]
    /\ response = [w \in Workers |-> NoResponse]
    /\ committed = NoRequest

-----------------------------------------------------------------------------
(* Spec: one request at a time *)

Signup(activity_name, email) ==
    LET result == signup_for_activity(activities, activity_name, email)
    IN  /\ activities' = result.table
        /\ last' = [op |-> "signup", activity_name |-> activity_name, email |-> email,
                    status |-> result.status, detail |-> result.detail,
                    before |-> activities]
        /\ UNCHANGED concVars

Unregister(activity_name, email) ==
    LET result == unregister_from_activity(activities, activity_name, email)
    IN  /\ activities' = result.table
        /\ last' = [op |-> "unregister", activity_name |-> activity_name, email |-> email,
                    status |-> result.status, detail |-> result.detail,
                    before |-> activities]
        /\ UNCHANGED concVars

Next ==
    \E activity_name \in RequestNames, email \in Emails :
        \/ Signup(activity_name, email)
        \/ Unregister(activity_name, email)

Spec == Init /\ [][Next]_vars

-----------------------------------------------------------------------------
(* SpecConc: two requests on two worker threads *)

\* The handler's query (app.py lines 50-54 and 85-89), by an idle worker
QueryStep(w, op, activity_name, email) ==
    LET found == Query(activities, activity_name)
    IN  /\ req' = [req EXCEPT ![w] = [op |-> op, activity_name |-> activity_name,
                                      email |-> email]]
        /\ loaded' = [loaded EXCEPT ![w] = found]
        /\ IF found = <<>>
           THEN /\ pc' = [pc EXCEPT ![w] = "done"]
                /\ response' = [response EXCEPT ![w] = NotFound]
           ELSE /\ pc' = [pc EXCEPT ![w] = "loaded"]
                /\ UNCHANGED response
        /\ UNCHANGED <<activities, last, committed>>

SignupQuery(w, activity_name, email) ==
    /\ pc[w] = "idle"
    /\ QueryStep(w, "signup", activity_name, email)

UnregisterQuery(w, activity_name, email) ==
    /\ pc[w] = "idle"
    /\ QueryStep(w, "unregister", activity_name, email)

\* The rest of the handler, on the loaded row, up to db.commit()
FinishStep(w, out) ==
    /\ activities' = IF out.write
                     THEN Commit(activities, req[w].activity_name, out.row)
                     ELSE activities
    /\ committed' = IF out.write THEN req[w] ELSE committed
    /\ response' = [response EXCEPT ![w] = [status |-> out.status, detail |-> out.detail]]
    /\ pc' = [pc EXCEPT ![w] = "done"]
    /\ UNCHANGED <<last, req, loaded>>

SignupFinish(w) ==
    /\ pc[w] = "loaded"
    /\ req[w].op = "signup"
    /\ FinishStep(w, signup_loaded(loaded[w][1], req[w].email))

UnregisterFinish(w) ==
    /\ pc[w] = "loaded"
    /\ req[w].op = "unregister"
    /\ FinishStep(w, unregister_loaded(loaded[w][1], req[w].email))

NextConc ==
    \E w \in Workers :
        \/ \E activity_name \in RequestNames, email \in Emails :
               \/ SignupQuery(w, activity_name, email)
               \/ UnregisterQuery(w, activity_name, email)
        \/ SignupFinish(w)
        \/ UnregisterFinish(w)

SpecConc == Init /\ [][NextConc]_vars

-----------------------------------------------------------------------------
(* Properties of the handlers run one at a time (Spec) *)

\* The last request named an activity that had a row
LastFound == last.op # "none" /\ last.activity_name \in DOMAIN last.before

\* The roster of the last request's activity before and after the request,
\* and the activity's capacity
Before == get_participants(last.before[last.activity_name])
After == get_participants(activities[last.activity_name])
Capacity == last.before[last.activity_name].max_participants

\* C1: after any sequence of signups and unregistrations, each run as one
\* step, every activity has at most max_participants participants.
CapacityInvariant ==
    \A n \in DOMAIN activities :
        Len(get_participants(activities[n])) <= activities[n].max_participants

\* C1 witness: a signup has just taken an activity's last free place.
SignupFilledActivity ==
    /\ last.op = "signup"
    /\ last.status = 200
    /\ Len(After) = Capacity

\* C5: after any sequence of signups and unregistrations, each run as one
\* step, no student appears twice in an activity's participants.
NoDuplicatesInvariant ==
    \A n \in DOMAIN activities : NoDuplicates(get_participants(activities[n]))

\* C5 witness: a signup has just added a student to a roster that already
\* had one.
SignupJoinedOthers ==
    /\ last.op = "signup"
    /\ last.status = 200
    /\ Len(After) >= 2

\* C6: a signup of a student who is already in a full activity is answered
\* "Student is already signed up", never "Activity is at maximum capacity".
DuplicateReportedBeforeCapacity ==
    (/\ last.op = "signup"
     /\ LastFound
     /\ In(last.email, Before)
     /\ Len(Before) >= Capacity)
    => (/\ last.status = 400
        /\ last.detail = "Student is already signed up")

\* C6 witness: the last request was a signup of a member of a full activity.
DuplicateSignupOnFullActivity ==
    /\ last.op = "signup"
    /\ LastFound
    /\ In(last.email, Before)
    /\ Len(Before) >= Capacity

\* C7: a signup of a student who is not in an existing activity with a free
\* place succeeds, and the roster afterwards is the roster before with the
\* student appended: once, last, the earlier entries where they were.
SignupAppends ==
    (/\ last.op = "signup"
     /\ LastFound
     /\ ~In(last.email, Before)
     /\ Len(Before) < Capacity)
    => (/\ last.status = 200
        /\ After = Append(Before, last.email)
        /\ Count(last.email, After) = 1
        /\ After[Len(After)] = last.email
        /\ \A i \in 1..Len(Before) : After[i] = Before[i])

\* C7 witness: the last request signed a new student up for an activity
\* that had participants and a free place.
SignupOfNewStudentWithRoom ==
    /\ last.op = "signup"
    /\ LastFound
    /\ ~In(last.email, Before)
    /\ Len(Before) < Capacity
    /\ Len(Before) >= 1

\* C8: a request answered 400 leaves the whole table as it was, and the
\* three conflicts are answered 400: a signup of a member, a signup of a
\* non-member for a full activity, an unregistration of a non-member.
ConflictChangesNothing ==
    /\ last.status = 400 => activities = last.before
    /\ (last.op = "signup" /\ LastFound /\ In(last.email, Before))
       => (last.status = 400 /\ last.detail = "Student is already signed up")
    /\ (last.op = "signup" /\ LastFound /\ ~In(last.email, Before)
                           /\ Len(Before) = Capacity)
       => (last.status = 400 /\ last.detail = "Activity is at maximum capacity")
    /\ (last.op = "unregister" /\ LastFound /\ ~In(last.email, Before))
       => (last.status = 400
           /\ last.detail = "Student is not signed up for this activity")

\* C8 witness: the last request was a signup of a non-member for a full
\* activity.
SignupRejectedAtCapacity ==
    /\ last.op = "signup"
    /\ LastFound
    /\ ~In(last.email, Before)
    /\ Len(Before) = Capacity

\* C9: a signup or unregistration naming an activity without a row is
\* answered 404 and leaves the table as it was; no request adds or removes
\* a row, so the table's names never change.
UnknownActivityNotFound ==
    /\ DOMAIN activities = ActivityNames
    /\ DOMAIN last.before = ActivityNames
    /\ (last.op # "none" /\ last.activity_name \notin DOMAIN last.before)
       => (/\ last.status = 404
           /\ last.detail = "Activity not found"
           /\ activities = last.before)

\* C9 witness: the last request was a signup for a name without a row.
SignupForUnknownActivity ==
    /\ last.op = "signup"
    /\ last.activity_name \notin ActivityNames
    /\ last.status = 404

-----------------------------------------------------------------------------
(* Properties of two requests run concurrently (SpecConc) *)

\* Two different workers whose requests name the same existing activity
SameActivity(w1, w2) ==
    /\ w1 # w2
    /\ pc[w1] # "idle"
    /\ pc[w2] # "idle"
    /\ req[w1].activity_name = req[w2].activity_name
    /\ req[w1].activity_name \in DOMAIN activities

Succeeded(w) == pc[w] = "done" /\ response[w].status = 200

\* C2: two signups for the same activity, their queries and commits
\* interleaved in any way, never leave the activity with more than
\* max_participants participants.
ConcurrentSignupsWithinCapacity ==
    \A w1, w2 \in Workers :
        (/\ SameActivity(w1, w2)
         /\ req[w1].op = "signup"
         /\ req[w2].op = "signup")
        => LET row == activities[req[w1].activity_name]
           IN  Len(get_participants(row)) <= row.max_participants

\* C2 witness: two signups of different students both loaded an activity
\* with one free place and both were answered 200.
TwoSignupsPassedCapacityCheck ==
    \E w1, w2 \in Workers :
        /\ SameActivity(w1, w2)
        /\ req[w1].op = "signup" /\ req[w2].op = "signup"
        /\ req[w1].email # req[w2].email
        /\ Succeeded(w1) /\ Succeeded(w2)
        /\ loaded[w1] = loaded[w2]
        /\ Len(get_participants(loaded[w1][1])) + 1 = loaded[w1][1].max_participants

\* C3: when two signups of different students for the same activity both
\* return success, both students are in the activity's participants.
AcknowledgedSignupsPersist ==
    \A w1, w2 \in Workers :
        (/\ SameActivity(w1, w2)
         /\ req[w1].op = "signup" /\ req[w2].op = "signup"
         /\ req[w1].email # req[w2].email
         /\ Succeeded(w1) /\ Succeeded(w2))
        => LET participants == get_participants(activities[req[w1].activity_name])
           IN  In(req[w1].email, participants) /\ In(req[w2].email, participants)

\* C4: two requests for the same activity and the same student, their
\* queries and commits interleaved in any way, never leave the student in
\* the roster twice, and the student is in the roster exactly when the last
\* request that committed was a signup.
SameStudentCallsConsistent ==
    \A w1, w2 \in Workers :
        (/\ SameActivity(w1, w2)
         /\ req[w1].email = req[w2].email)
        => LET participants == get_participants(activities[req[w1].activity_name])
               email == req[w1].email
           IN  /\ Count(email, participants) <= 1
               /\ committed.op # "none"
                  => (In(email, participants) <=> committed.op = "signup")

\* C4 witness: two signups of the same student for the same activity were
\* both answered 200.
TwoSignupsOfSameStudentSucceeded ==
    \E w1, w2 \in Workers :
        /\ SameActivity(w1, w2)
        /\ req[w1].op = "signup" /\ req[w2].op = "signup"
        /\ req[w1].email = req[w2].email
        /\ Succeeded(w1) /\ Succeeded(w2)

=============================================================================
